---- MODULE Spec2Model ----
(***************************************************************************)
(* Model of the trading-game simulator (trading_simulation.py and the      *)
(* risk function of quick_simulation.py).                                  *)
(*                                                                         *)
(* Real numbers are fixed point: prices and money in cents, ratios and     *)
(* rates in thousandths, probabilities in millionths.  The module-level    *)
(* random source is a deterministic generator with an explicit state, so   *)
(* that seeding, and the lack of it, is visible in the behaviours.         *)
(***************************************************************************)
EXTENDS Integers, Sequences, FiniteSets

VARIABLES
    pc,                 \* position of the program
    rng,                \* state of the module-level random source
    num_rounds,         \* argument of run_trading_simulation
    players_per_type,   \* argument of run_trading_simulation
    riskModel,          \* which simulator the strategies are handed
    round_num,          \* loop variable of run_trading_simulation
    price_data,         \* the candle sequence of the round (index 0 is seq index 1)
    gen,                \* locals of generate_realistic_price_data
    all_players,        \* the population
    cur,                \* index of the player of the inner loop
    strat,              \* locals of the running strategy
    pos,                \* the position held by the running strategy
    trades,             \* list returned by the last strategy call
    round_fees,         \* fees collected in the round
    house_profits,      \* per-round series
    total_fees_collected, \* per-round series
    total_liquidations, \* per-round series
    ledger,             \* per player: sums of net PnL and of forfeited sizes, positions opened
    runs,               \* number of calls of run_trading_simulation so far
    prevResult,         \* what the previous call returned
    call,               \* inputs and result of a single function call
    firstData           \* candle sequence returned by the first of two calls

vars == <<pc, rng, num_rounds, players_per_type, riskModel, round_num,
          price_data, gen, all_players, cur, strat, pos, trades, round_fees,
          house_profits, total_fees_collected, total_liquidations, ledger,
          runs, prevResult, call, firstData>>

----------------------------------------------------------------------------
(* Program constants, TradingGameSimulator.__init__ *)

ROUND_DURATION_CANDLES == 470
GRACE_PERIOD_CANDLES == 150
RAMP_UP_PERIOD == 75
\* 0.002, in thousandths
TRADING_FEE_RATE == 2
\* 0.2, in thousandths
POSITION_SIZE_RATIO == 200
\* Player.__init__: initial_balance=1000, in cents
INITIAL_BALANCE == 100000

(* Units of the fixed-point representation *)
\* thousandths, for ratios, rates and multipliers
Milli == 1000
\* millionths, for probabilities
ProbScale == 1000000
\* Python's None for an optional argument
None == -999999

(* Bounds of the model *)
MaxRounds == 2
MaxPlayersPerType == 1
MaxRuns == 2
\* the random source starts in one of the states 0..MaxInitRng
MaxInitRng == 1

----------------------------------------------------------------------------
(* Arithmetic *)

Min(a, b) == IF a <= b THEN a ELSE b
Max(a, b) == IF a >= b THEN a ELSE b

\* a * b / c for c > 0 and b >= 0, rounded down, without forming a * b when a
\* is large: a = q*c + r gives a*b/c = q*b + r*b/c
MulDiv(a, b, c) == (a \div c) * b + ((a % c) * b) \div c

RECURSIVE SumSeq(_)
SumSeq(s) == IF s = <<>> THEN 0 ELSE Head(s) + SumSeq(Tail(s))

----------------------------------------------------------------------------
(* The random source.  random.random() steps the state and returns it as   *)
(* a fraction of RngMod; random.seed(s) sets the state from s alone.       *)

RngMod == 65536
RngMul == 25173
RngInc == 13849

RngNext(s) == (RngMul * s + RngInc) % RngMod

RECURSIVE RngAt(_, _)
\* the state after k draws; also the value of the k-th draw, out of RngMod
RngAt(s, k) == IF k = 0 THEN s ELSE RngAt(RngNext(s), k - 1)

\* random.seed(seed)
RngSeed(seed) == (seed * 7919 + 104729) % RngMod

\* lo + random.random() * width, for a draw u (width < 32768)
Uniform(lo, width, u) == lo + (u * width) \div RngMod

\* random.randint(a, b) for a draw u
RandInt(a, b, u) == a + (u * (b - a + 1)) \div RngMod

----------------------------------------------------------------------------
(* Liquidation risk model *)

\* largest r in 0..73 with r^5 <= x: the integer fifth root, for x < 74^5
Root5(x) == CHOOSE r \in 0..73 : r*r*r*r*r <= x /\ (r = 73 \/ (r+1)*(r+1)*(r+1)*(r+1)*(r+1) > x)

\* 200 ** 1.8, rounded
Pow18Of200 == 13863

\* ((position_duration - 60) / 200) ** 1.8 * 0.006 in millionths, for n =
\* position_duration - 60 > 0.  n ** 1.8 is n * (n^4)^(1/5).  The value
\* passes the 0.004 cap from n = 160 on and is non-decreasing, so n is
\* saturated at 215 to keep n^4 in range.
TimeRiskRaw(n) ==
    LET m == Min(n, 215)
    IN  (6000 * m * Root5(m * m * m * m)) \div Pow18Of200

\* the base chance after the grace period, in millionths
BaseChance(candle_num) ==
    LET candles_since_grace == candle_num - GRACE_PERIOD_CANDLES
    IN  IF candles_since_grace < RAMP_UP_PERIOD
        THEN (300 * candles_since_grace) \div RAMP_UP_PERIOD
        ELSE 300

\* a time risk that is charged only while (position_duration - 60) / 200 is
\* at most 1
TimeRiskWindow(position_duration) ==
    IF position_duration > 60 /\ position_duration <= 260
    THEN Min(4000, TimeRiskRaw(position_duration - 60))
    ELSE 0

\* lines 93-95
TimeRisk(position_duration) ==
    IF position_duration > 60
    THEN Min(4000, TimeRiskRaw(position_duration - 60))
    ELSE 0

\* position_size_ratio in thousandths
SizeRisk(position_size_ratio) ==
    IF position_size_ratio # None /\ position_size_ratio > 700
    THEN Min(500, ((position_size_ratio - 700) * 500) \div Milli)
    ELSE 0

\* pnl_percent in thousandths
GreedRisk(pnl_percent) ==
    IF pnl_percent # None /\ pnl_percent > 300
    THEN Min(800, pnl_percent - 300)
    ELSE 0

\* total_risk before the random multiplier
ComposedRisk(candle_num, position_duration, position_size_ratio, pnl_percent) ==
    BaseChance(candle_num)
    + (IF position_duration # None
       THEN TimeRisk(position_duration) + SizeRisk(position_size_ratio)
            + GreedRisk(pnl_percent)
       ELSE 0)

\* 0.7 + random.random() * 0.8, in thousandths
RandomMultiplier(u) == Uniform(700, 800, u)

Cap(total_risk) == Min(10000, total_risk)

\* calculate_liquidation_probability without the return of lines 74-75
RiskWithoutGrace(candle_num, position_duration, position_size_ratio, pnl_percent, s) ==
    [value |-> Cap((ComposedRisk(candle_num, position_duration, position_size_ratio, pnl_percent)
                    * RandomMultiplier(RngAt(s, 1))) \div Milli),
     rng |-> RngAt(s, 1)]

\* TradingGameSimulator.calculate_liquidation_probability; s is the state of
\* the random source at the call.  The result is a probability in millionths.
calculate_liquidation_probability(candle_num, position_duration, position_size_ratio, pnl_percent, s) ==
    IF candle_num < GRACE_PERIOD_CANDLES
    THEN [value |-> 0, rng |-> s]
    ELSE [value |-> Cap((ComposedRisk(candle_num, position_duration,
                                      position_size_ratio, pnl_percent)
                         * RandomMultiplier(RngAt(s, 1))) \div Milli),
          rng |-> RngAt(s, 1)]

\* QuickTradingSimulator.calculate_liquidation_probability
quick_calculate_liquidation_probability(candle_num, position_duration, s) ==
    IF candle_num < GRACE_PERIOD_CANDLES
    THEN [value |-> 0, rng |-> s]
    ELSE LET base_chance ==
                 BaseChance(candle_num)
                 + (IF position_duration # None /\ position_duration # 0
                       /\ position_duration > 60
                    THEN Min(4000, TimeRiskRaw(position_duration - 60))
                    ELSE 0)
         IN  [value |-> Cap((base_chance * RandomMultiplier(RngAt(s, 1))) \div Milli),
              rng |-> RngAt(s, 1)]

\* random.random() < prob, for a draw u out of RngMod and prob in millionths
\* (both sides of u / 65536 < prob / 1000000 scaled by 2^10 * 5^6)
DrawBelow(u, prob) == u * 15625 < prob * 1024

----------------------------------------------------------------------------
(* Candle sequence generator *)

\* math.sin of an angle in degrees, in thousandths (Bhaskara's rational
\* approximation on a half turn, odd symmetry on the other half)
SinMilli(deg) ==
    LET d == deg % 360
        h == IF d <= 180 THEN d ELSE d - 180
        x == h * (180 - h)
        v == (4000 * x) \div (40500 - x)
    IN  IF d <= 180 THEN v ELSE -v

\* math.sin((i * 2 * math.pi / period) + phase) * amplitude, in thousandths;
\* period in hundredths of a candle, phase in degrees, amplitude in thousandths
Wave(i, period, phase, amplitude) ==
    (SinMilli((i * 36000) \div period + phase) * amplitude) \div Milli

\* lines 21-31: the start price and the periods and phases of the three
\* waves, from the six draws that follow state s
GenParams(s) ==
    [price         |-> Uniform(1000, 500, RngAt(s, 1)),
     base_period   |-> Uniform(10000, 10000, RngAt(s, 2)),
     medium_period |-> Uniform(3000, 2000, RngAt(s, 3)),
     short_period  |-> Uniform(800, 800, RngAt(s, 4)),
     base_phase    |-> Uniform(0, 360, RngAt(s, 5)),
     medium_phase  |-> Uniform(0, 360, RngAt(s, 6)),
     short_phase   |-> Uniform(0, 360, RngAt(s, 7)),
     rng           |-> RngAt(s, 7)]

\* the floor of 0.01 on close and low
PriceFloor(p) == Max(1, p)

\* line 56 with min for max
HighPriceFromMin(open_price, close_price, wick) == Min(open_price, close_price) + wick

\* line 56
HighPrice(open_price, close_price, wick) == Max(open_price, close_price) + wick

\* lines 57-58
LowPrice(open_price, close_price, wick) ==
    PriceFloor(Min(open_price, close_price) - wick)

\* lines 33-68: the body of the loop for candle i, from price and the seven
\* draws that follow state s
GenCandle(i, price, g, s) ==
    LET trend_wave == Wave(i, g.base_period, g.base_phase, 150)
                      + Wave(i, g.medium_period, g.medium_phase, 80)
                      + Wave(i, g.short_period, g.short_phase, 40)
        \* 0.02 + random.random() * 0.06, in ten-thousandths
        volatility == Uniform(200, 600, RngAt(s, 1))
        \* random.choice([-1, 1])
        direction == IF RngAt(s, 2) * 2 < RngMod THEN -1 ELSE 1
        \* (random.random() - 0.5) * 2, in thousandths
        random_factor == Uniform(-1000, 2000, RngAt(s, 3))
        final_direction == direction * Milli + trend_wave
                           + (random_factor * 300) \div Milli
        sign == IF final_direction >= 0 THEN 1 ELSE -1
        abs_move == (price * volatility) \div 10000
        open_price == price
        close_price == PriceFloor(open_price
                           + sign * ((abs_move * Uniform(500, 500, RngAt(s, 4))) \div Milli))
        wick_multiplier == Uniform(300, 400, RngAt(s, 5))
        wick_room == (abs_move * wick_multiplier) \div Milli
        high_price == HighPrice(open_price, close_price,
                                (wick_room * RngAt(s, 6)) \div RngMod)
        low_price == LowPrice(open_price, close_price,
                              (wick_room * RngAt(s, 7)) \div RngMod)
    IN  [candle |-> [candle |-> i, open |-> open_price, high |-> high_price,
                     low |-> low_price, close |-> close_price],
         rng |-> RngAt(s, 7)]

\* lines 16-18: "if seed:" seeds the random source for a truthy seed only
SeedIfGiven(seed, s) == IF seed # None /\ seed # 0 THEN RngSeed(seed) ELSE s

\* lines 16-31: the locals of generate_realistic_price_data before its loop,
\* called with the random source in state s; ret is where the call returns
GenStart(seed, s, ret) ==
    LET g == GenParams(SeedIfGiven(seed, s))
    IN  [i |-> 0, price |-> g.price, params |-> g, ret |-> ret]

NoGen == [i |-> 0, price |-> 0, params |-> GenParams(0), ret |-> "none"]

\* price_data[i]['close'] and price_data[i]['high'] for a candle index i >= 0
Close(data, i) == data[i + 1].close
High(data, i) == data[i + 1].high

----------------------------------------------------------------------------
(* Risk models handed to the strategies: the simulator's own, and the two  *)
(* stubs of the end-to-end scenarios.                                      *)

RiskModels == {"real", "never", "always"}

\* a stub whose probability is always 0
StubNever(candle_num, s) == [value |-> 0, rng |-> s]

\* a stub whose probability is 1.0 from the grace period on
StubAlways(candle_num, s) ==
    [value |-> IF candle_num >= GRACE_PERIOD_CANDLES THEN ProbScale ELSE 0, rng |-> s]

RiskOf(model, candle_num, position_duration, position_size_ratio, pnl_percent, s) ==
    IF model = "never" THEN StubNever(candle_num, s)
    ELSE IF model = "always" THEN StubAlways(candle_num, s)
    ELSE calculate_liquidation_probability(candle_num, position_duration, position_size_ratio, pnl_percent, s)

\* TradingGameSimulator.check_liquidation: the probability, then one draw
check_liquidation(model, candle_num, position_duration, position_size_ratio, pnl_percent, s) ==
    LET prob == RiskOf(model, candle_num, position_duration, position_size_ratio, pnl_percent, s)
    IN  [fires |-> DrawBelow(RngAt(prob.rng, 1), prob.value), rng |-> RngAt(prob.rng, 1)]

----------------------------------------------------------------------------
(* Players and strategies *)

PlayerTypes == <<"random", "hodl", "scalper", "dip_buyer">>

\* Player.__init__
Player(player_type) ==
    [type |-> player_type, balance |-> INITIAL_BALANCE,
     initial_balance |-> INITIAL_BALANCE, total_trades |-> 0,
     winning_trades |-> 0, total_fees_paid |-> 0, liquidations_suffered |-> 0]

\* lines 365-368: players_per_type players of each type, in the order of the
\* keys of player_types
NewPlayers(ppt) ==
    [k \in 1..(4 * ppt) |-> Player(PlayerTypes[(k - 1) \div ppt + 1])]

NoPosition ==
    [entry_candle |-> 0, exit_candle |-> 0, entry_price |-> 1, position_size |-> 0,
     ratio |-> 0, candle |-> 0, duration |-> None, status |-> "none"]

\* random.choices([0, 1, 2, 3, 4, 5], weights=[10, 30, 25, 20, 10, 5])[0]
NumTradesRandom(u) ==
    LET x == (u * 100) \div RngMod
    IN  IF x < 10 THEN 0 ELSE IF x < 40 THEN 1 ELSE IF x < 65 THEN 2
        ELSE IF x < 85 THEN 3 ELSE IF x < 95 THEN 4 ELSE 5

\* the standard ratio for every strategy
RatioOfStandard(type) == POSITION_SIZE_RATIO

\* the size ratio a strategy uses: the scalper halves it
RatioOf(type) ==
    IF type = "scalper" THEN POSITION_SIZE_RATIO \div 2 ELSE POSITION_SIZE_RATIO

\* a size from a ratio read as a number of tenths
PositionSizeTenths(balance, ratio) == (balance * ratio) \div 100

\* player.balance * ratio
PositionSize(balance, ratio) == (balance * ratio) \div Milli

\* (price - entry_price) * (position_size / entry_price)
Pnl(price, entry_price, position_size) ==
    MulDiv(price - entry_price, position_size, entry_price)

\* position_size * simulator.TRADING_FEE_RATE
TradingFee(position_size) == (position_size * TRADING_FEE_RATE) \div Milli

\* pnl / player.balance, in thousandths
PnlPercent(pnl, balance) == (pnl * Milli) \div balance

\* lines 144-151, 251-258: a position of the random trader or the scalper,
\* from the two draws that follow state s
OpenDrawn(type, balance, data, s) ==
    LET last == Len(data) - (IF type = "scalper" THEN 20 ELSE 50)
        entry_candle == RandInt(GRACE_PERIOD_CANDLES, last, RngAt(s, 1))
        hold_duration == IF type = "scalper" THEN RandInt(5, 30, RngAt(s, 2))
                         ELSE RandInt(10, 100, RngAt(s, 2))
    IN  [entry_candle |-> entry_candle,
         exit_candle |-> Min(entry_candle + hold_duration, Len(data) - 1),
         entry_price |-> Close(data, entry_candle),
         position_size |-> PositionSize(balance, RatioOf(type)),
         ratio |-> RatioOf(type), candle |-> entry_candle,
         duration |-> None, status |-> "open"]

\* an entry at the first candle after the grace period
HodlEntryAtGrace == GRACE_PERIOD_CANDLES

\* lines 199-204: the position of buy-and-hold
HodlEntry == GRACE_PERIOD_CANDLES + 10

OpenHodl(balance, data) ==
    [entry_candle |-> HodlEntry, exit_candle |-> Len(data) - 1,
     entry_price |-> Close(data, HodlEntry),
     position_size |-> PositionSize(balance, POSITION_SIZE_RATIO),
     ratio |-> POSITION_SIZE_RATIO, candle |-> HodlEntry, duration |-> None,
     status |-> "open"]

\* lines 296-304: the candles at which the dip buyer may enter
Lookback == 20

RecentHigh(data, i) ==
    CHOOSE h \in {High(data, j) : j \in (i - Lookback)..(i - 1)} :
        \A j \in (i - Lookback)..(i - 1) : High(data, j) <= h

\* drop_percent > 0.05, that is (recent_high - close) / recent_high > 1/20
IsDip(data, i) == (RecentHigh(data, i) - Close(data, i)) * 20 > RecentHigh(data, i)

EntryOpportunities(data) ==
    {i \in (GRACE_PERIOD_CANDLES + Lookback)..(Len(data) - 31) : IsDip(data, i)}

\* the last element, as entry_opportunities[-1] would take it
SetMax(S) == CHOOSE x \in S : \A y \in S : x >= y

\* entry_opportunities[0] of a list built in increasing order (line 310)
SetMin(S) == CHOOSE x \in S : \A y \in S : x <= y

\* lines 310-316: the position of the dip buyer, from the draw after state s
OpenDip(balance, data, s) ==
    LET entry_candle == SetMin(EntryOpportunities(data))
        hold_duration == RandInt(30, 80, RngAt(s, 1))
    IN  [entry_candle |-> entry_candle,
         exit_candle |-> Min(entry_candle + hold_duration, Len(data) - 1),
         entry_price |-> Close(data, entry_candle),
         position_size |-> PositionSize(balance, POSITION_SIZE_RATIO),
         ratio |-> POSITION_SIZE_RATIO, candle |-> entry_candle,
         duration |-> None, status |-> "open"]

\* the candle index itself, handed over as the hold duration
HoldDurationFromCandle(p) == p.candle

\* duration = candle - entry_candle (line 156 and its copies)
HoldDuration(p) == p.candle - p.entry_candle

\* the check of one held candle: lines 156-161 and their copies
CheckOf(model, p, balance, data, s) ==
    check_liquidation(model, p.candle, HoldDuration(p), p.ratio,
                      PnlPercent(Pnl(Close(data, p.candle), p.entry_price, p.position_size), balance), s)

\* the Trade record of a normal exit
TradeOf(p, data) ==
    LET exit_price == Close(data, p.exit_candle)
        gross_pnl == Pnl(exit_price, p.entry_price, p.position_size)
        trading_fee == TradingFee(p.position_size)
    IN  [entry_candle |-> p.entry_candle, exit_candle |-> p.exit_candle,
         entry_price |-> p.entry_price, exit_price |-> exit_price,
         gross_pnl |-> gross_pnl, net_pnl |-> gross_pnl - trading_fee,
         fee |-> trading_fee]

\* a liquidation that also charges the trading fee
LiquidatedWithFee(player, p) ==
    [player EXCEPT !.balance = @ - p.position_size - TradingFee(p.position_size),
                   !.total_fees_paid = @ + TradingFee(p.position_size),
                   !.liquidations_suffered = @ + 1]

\* a liquidation that debits the position size twice
LiquidatedTwice(player, p) ==
    [player EXCEPT !.balance = @ - 2 * p.position_size,
                   !.liquidations_suffered = @ + 1]

\* the player after a liquidation: lines 163-164 and their copies
Liquidated(player, p) ==
    [player EXCEPT !.balance = @ - p.position_size,
                   !.liquidations_suffered = @ + 1]

\* a normal exit that credits the gross PnL
ExitedGross(player, t) ==
    [player EXCEPT !.balance = @ + t.gross_pnl,
                   !.total_fees_paid = @ + t.fee,
                   !.total_trades = @ + 1,
                   !.winning_trades = IF t.net_pnl > 0 THEN @ + 1 ELSE @]

\* the player after a normal exit: lines 175-179 and their copies
Exited(player, t) ==
    [player EXCEPT !.balance = @ + t.net_pnl,
                   !.total_fees_paid = @ + t.fee,
                   !.total_trades = @ + 1,
                   !.winning_trades = IF t.net_pnl > 0 THEN @ + 1 ELSE @]

\* what a strategy appends to its list of trades at a normal exit: the
\* scalper appends nothing (lines 274-286)
Recorded(type, ts, t) ==
    IF type = "scalper" THEN ts
    ELSE IF type = "random" THEN Append(ts, t)
    ELSE <<t>>

\* strategies that loop over several positions
Loops(type) == type \in {"random", "scalper"}

\* line 401: the players that carry the attribute _round_liquidations
RoundLiquidations(players) ==
    Cardinality({k \in DOMAIN players : "_round_liquidations" \in DOMAIN players[k]})

RECURSIVE SumFees(_)
\* lines 397-398
SumFees(ts) == IF ts = <<>> THEN 0 ELSE Head(ts).fee + SumFees(Tail(ts))

\* what run_trading_simulation returns, without the derived round_data
Result ==
    [players |-> all_players, house_profits |-> house_profits,
     fees |-> total_fees_collected, liquidations |-> total_liquidations]

NoResult == [players |-> <<>>, house_profits |-> <<>>, fees |-> <<>>, liquidations |-> <<>>]

NoCall ==
    [fn |-> "none", seed |-> None, calls |-> 0, candle_num |-> 0,
     position_duration |-> None, position_size_ratio |-> None,
     pnl_percent |-> None, result |-> 0, later |-> 0]

----------------------------------------------------------------------------
(* The simulation: run_trading_simulation and the strategies it drives *)

NoLedger == [net |-> 0, forfeited |-> 0, opened |-> 0]

\* the state before run_trading_simulation is called
Idle ==
    /\ pc = "idle"
    /\ round_num = 0
    /\ price_data = <<>>
    /\ gen = NoGen
    /\ all_players = <<>>
    /\ cur = 0
    /\ strat = [trades_left |-> 0, opened |-> 0]
    /\ pos = NoPosition
    /\ trades = <<>>
    /\ round_fees = 0
    /\ house_profits = <<>>
    /\ total_fees_collected = <<>>
    /\ total_liquidations = <<>>
    /\ ledger = <<>>
    /\ runs = 0
    /\ prevResult = NoResult
    /\ firstData = <<>>

\* the arguments are any integers: the well-formed counts, and counts that
\* are not positive
Init ==
    /\ Idle
    /\ rng \in 0..MaxInitRng
    /\ \/ /\ num_rounds = MaxRounds
          /\ players_per_type \in 1..MaxPlayersPerType
          /\ riskModel \in RiskModels
       \/ /\ num_rounds \in {-1, 0}
          /\ players_per_type = 1
          /\ riskModel = "real"
       \/ /\ num_rounds = 1
          /\ players_per_type \in {-1, 0}
          /\ riskModel = "real"
    /\ call = NoCall

config == <<num_rounds, players_per_type, riskModel>>
sim == <<round_num, all_players, cur, strat, pos, trades, round_fees, house_profits,
        total_fees_collected, total_liquidations, ledger, runs, prevResult>>
unit == <<call, firstData>>

\* lines 352-376: a call of run_trading_simulation; a later call follows the
\* return of the one before, with the random source as that one left it
RunSimulation ==
    /\ IF pc = "idle" THEN TRUE ELSE pc = "done" /\ runs < MaxRuns
    /\ runs' = runs + 1
    /\ prevResult' = IF runs = 0 THEN NoResult ELSE Result
    /\ all_players' = NewPlayers(players_per_type)
    /\ ledger' = [k \in 1..(4 * players_per_type) |-> NoLedger]
    /\ house_profits' = <<>>
    /\ total_fees_collected' = <<>>
    /\ total_liquidations' = <<>>
    /\ round_num' = 0
    /\ round_fees' = 0
    /\ cur' = 0
    /\ trades' = <<>>
    /\ pc' = "round"
    /\ UNCHANGED <<rng, price_data, strat, pos, gen, config, unit>>

\* lines 378-383 and 16-31: the head of the loop over the rounds, and the
\* call of generate_realistic_price_data(seed=round_num) up to its loop
StartRound ==
    /\ pc = "round"
    /\ round_num < num_rounds
    /\ gen' = GenStart(round_num, rng, "fees")
    /\ rng' = gen'.params.rng
    /\ price_data' = <<>>
    /\ pc' = "generate"
    /\ UNCHANGED <<round_num, all_players, cur, strat, pos, trades, round_fees,
                   house_profits, total_fees_collected, total_liquidations,
                   ledger, runs, prevResult, config, unit>>

\* lines 33-68: one candle of the loop of generate_realistic_price_data
GenStep ==
    /\ pc = "generate"
    /\ gen.i < ROUND_DURATION_CANDLES
    /\ LET c == GenCandle(gen.i, gen.price, gen.params, rng)
       IN  /\ price_data' = Append(price_data, c.candle)
           /\ gen' = [gen EXCEPT !.i = @ + 1, !.price = c.candle.close]
           /\ rng' = c.rng
    /\ UNCHANGED <<pc, round_num, all_players, cur, strat, pos, trades,
                   round_fees, house_profits, total_fees_collected,
                   total_liquidations, ledger, runs, prevResult, config, unit>>

\* line 70, and lines 385-386 when the caller is the round
GenReturn ==
    /\ pc = "generate"
    /\ gen.i >= ROUND_DURATION_CANDLES
    /\ IF gen.ret = "fees"
       THEN /\ round_fees' = 0
            /\ cur' = 1
            /\ pc' = "player"
            /\ UNCHANGED <<call, firstData>>
       ELSE /\ pc' = "called"
            /\ call' = [call EXCEPT !.calls = @ + 1]
            /\ firstData' = IF call.calls = 0 THEN price_data ELSE firstData
            /\ UNCHANGED <<round_fees, cur>>
    /\ UNCHANGED <<rng, round_num, price_data, gen, all_players, strat, pos,
                   trades, house_profits, total_fees_collected,
                   total_liquidations, ledger, runs, prevResult, config>>

\* line 423
Return ==
    /\ pc = "round"
    /\ round_num >= num_rounds
    /\ pc' = "done"
    /\ UNCHANGED <<rng, round_num, price_data, all_players, cur, strat, pos,
                   trades, round_fees, house_profits, total_fees_collected,
                   total_liquidations, ledger, runs, prevResult, gen, config, unit>>

\* lines 389-394: the next player; one without balance is skipped, the
\* others start their strategy.  random_trader and scalper draw their number
\* of trades (lines 137, 244).
PlayerTurn ==
    /\ pc = "player"
    /\ cur <= Len(all_players)
    /\ LET player == all_players[cur]
       IN  IF player.balance <= 0
           THEN /\ cur' = cur + 1
                /\ UNCHANGED <<pc, rng, strat, trades>>
           ELSE /\ pc' = "strategy"
                /\ trades' = <<>>
                /\ strat' = [trades_left |->
                               IF player.type = "random" THEN NumTradesRandom(RngAt(rng, 1))
                               ELSE IF player.type = "scalper" THEN RandInt(5, 15, RngAt(rng, 1))
                               ELSE 1,
                             opened |-> 0]
                /\ rng' = IF Loops(player.type) THEN RngAt(rng, 1) ELSE rng
                /\ UNCHANGED cur
    /\ UNCHANGED <<round_num, price_data, all_players, pos, round_fees,
                   house_profits, total_fees_collected, total_liquidations,
                   ledger, runs, prevResult, gen, config, unit>>

\* the strategy has no position to open (any more): the loop of random_trader
\* or scalper ends or breaks (lines 139-141, 246-248), buy_and_hold or
\* dip_buyer finds no balance (lines 196, 291), or dip_buyer no dip (line 306)
NothingToOpen(player) ==
    IF Loops(player.type)
    THEN ~(strat.trades_left > 0 /\ player.balance > 0)
    ELSE IF player.balance <= 0 THEN TRUE
    ELSE player.type = "dip_buyer" /\ EntryOpportunities(price_data) = {}

StrategyReturns ==
    /\ pc = "strategy"
    /\ NothingToOpen(all_players[cur])
    /\ pc' = "collect"
    /\ UNCHANGED <<rng, round_num, price_data, all_players, cur, strat, pos,
                   trades, round_fees, house_profits, total_fees_collected,
                   total_liquidations, ledger, runs, prevResult, gen, config, unit>>

\* the strategy opens a position
OpenPosition ==
    /\ pc = "strategy"
    /\ ~NothingToOpen(all_players[cur])
    /\ LET player == all_players[cur]
       IN  /\ pos' = IF Loops(player.type)
                     THEN OpenDrawn(player.type, player.balance, price_data, rng)
                     ELSE IF player.type = "hodl"
                     THEN OpenHodl(player.balance, price_data)
                     ELSE OpenDip(player.balance, price_data, rng)
           /\ rng' = IF Loops(player.type) THEN RngAt(rng, 2)
                     ELSE IF player.type = "hodl" THEN rng
                     ELSE RngAt(rng, 1)
    /\ strat' = [trades_left |-> strat.trades_left - 1, opened |-> strat.opened + 1]
    /\ ledger' = [ledger EXCEPT ![cur].opened = @ + 1]
    /\ pc' = "hold"
    /\ UNCHANGED <<round_num, price_data, all_players, cur, trades, round_fees,
                   house_profits, total_fees_collected, total_liquidations,
                   runs, prevResult, gen, config, unit>>

\* where a strategy goes after a position: back to the head of its loop, or
\* out
AfterPosition(type) == IF Loops(type) THEN "strategy" ELSE "collect"

\* a held candle whose liquidation check does not fire
HoldCandle ==
    /\ pc = "hold"
    /\ pos.candle <= pos.exit_candle
    /\ LET chk == CheckOf(riskModel, pos, all_players[cur].balance, price_data, rng)
       IN  /\ ~chk.fires
           /\ rng' = chk.rng
    /\ pos' = [pos EXCEPT !.candle = @ + 1, !.duration = HoldDuration(pos)]
    /\ UNCHANGED <<pc, round_num, price_data, all_players, cur, strat, trades,
                   round_fees, house_profits, total_fees_collected,
                   total_liquidations, ledger, runs, prevResult, gen, config, unit>>

\* a held candle whose liquidation check fires
Liquidation ==
    /\ pc = "hold"
    /\ pos.candle <= pos.exit_candle
    /\ LET chk == CheckOf(riskModel, pos, all_players[cur].balance, price_data, rng)
       IN  /\ chk.fires
           /\ rng' = chk.rng
    /\ all_players' = [all_players EXCEPT ![cur] = Liquidated(@, pos)]
    /\ ledger' = [ledger EXCEPT ![cur].forfeited = @ + pos.position_size]
    /\ pos' = [pos EXCEPT !.status = "liquidated", !.duration = HoldDuration(pos)]
    /\ trades' = IF Loops(all_players[cur].type) THEN trades ELSE <<>>
    /\ pc' = AfterPosition(all_players[cur].type)
    /\ UNCHANGED <<round_num, price_data, cur, strat, round_fees,
                   house_profits, total_fees_collected, total_liquidations,
                   runs, prevResult, gen, config, unit>>

\* the normal exit of a position that survived all its candles
NormalExit ==
    /\ pc = "hold"
    /\ pos.candle > pos.exit_candle
    /\ LET t == TradeOf(pos, price_data)
       IN  /\ all_players' = [all_players EXCEPT ![cur] = Exited(@, t)]
           /\ ledger' = [ledger EXCEPT ![cur].net = @ + t.net_pnl]
           /\ trades' = Recorded(all_players[cur].type, trades, t)
    /\ pos' = [pos EXCEPT !.status = "closed"]
    /\ pc' = AfterPosition(all_players[cur].type)
    /\ UNCHANGED <<rng, round_num, price_data, cur, strat, round_fees,
                   house_profits, total_fees_collected, total_liquidations,
                   runs, prevResult, gen, config, unit>>

\* lines 396-398: the fees of the trades the strategy returned
CollectFees ==
    /\ pc = "collect"
    /\ round_fees' = round_fees + SumFees(trades)
    /\ cur' = cur + 1
    /\ pc' = "player"
    /\ UNCHANGED <<rng, round_num, price_data, all_players, strat, pos, trades,
                   house_profits, total_fees_collected, total_liquidations,
                   ledger, runs, prevResult, gen, config, unit>>

\* lines 400-411: the end of the round
EndRound ==
    /\ pc = "player"
    /\ cur > Len(all_players)
    /\ house_profits' = Append(house_profits, round_fees)
    /\ total_fees_collected' = Append(total_fees_collected, round_fees)
    /\ total_liquidations' = Append(total_liquidations, RoundLiquidations(all_players))
    /\ round_num' = round_num + 1
    /\ pc' = "round"
    /\ UNCHANGED <<rng, price_data, all_players, cur, strat, pos, trades,
                   round_fees, ledger, runs, prevResult, gen, config, unit>>

Next ==
    \/ RunSimulation
    \/ StartRound
    \/ GenStep
    \/ GenReturn
    \/ Return
    \/ PlayerTurn
    \/ StrategyReturns
    \/ OpenPosition
    \/ HoldCandle
    \/ Liquidation
    \/ NormalExit
    \/ CollectFees
    \/ EndRound

Spec == Init /\ [][Next]_vars

----------------------------------------------------------------------------
(* The risk functions called on their own *)

CandleNums == {-1, 0, 149, 150, 151, 187, 224, 225, 300, 469, 1000}
Durations == {None, -5, 0, 60, 61, 100, 219, 220, 221, 320, 5000}
SizeRatios == {None, 0, 100, 200, 700, 701, 1000, 1700, 1701, 50000}
PnlPercents == {None, -5000, 0, 300, 301, 1100, 1101, 100000}

\* states of the random source whose next draw is the least, the middle or
\* the greatest value
ExtremeDraws == {s \in 0..(RngMod - 1) : RngNext(s) \in {0, RngMod \div 2, RngMod - 1}}

InitRisk ==
    /\ Idle
    /\ rng \in ExtremeDraws
    /\ num_rounds = 1
    /\ players_per_type = 1
    /\ riskModel = "real"
    /\ call = NoCall

\* a call of TradingGameSimulator.calculate_liquidation_probability
RiskCall ==
    /\ pc = "idle"
    /\ \E c \in CandleNums, d \in Durations, r \in SizeRatios, p \in PnlPercents :
          call' = [call EXCEPT !.fn = "risk", !.candle_num = c, !.position_duration = d,
                               !.position_size_ratio = r, !.pnl_percent = p,
                               !.result = calculate_liquidation_probability(c, d, r, p, rng).value]
    /\ pc' = "called"
    /\ UNCHANGED <<rng, price_data, gen, firstData, sim, config>>

\* a call of QuickTradingSimulator.calculate_liquidation_probability
QuickRiskCall ==
    /\ pc = "idle"
    /\ \E c \in CandleNums, d \in Durations :
          call' = [call EXCEPT !.fn = "quick_risk", !.candle_num = c, !.position_duration = d,
                               !.result = quick_calculate_liquidation_probability(c, d, rng).value]
    /\ pc' = "called"
    /\ UNCHANGED <<rng, price_data, gen, firstData, sim, config>>

\* the hold durations of a round and the candle numbers past the grace period
HoldDurations == 0..ROUND_DURATION_CANDLES
LateCandleNums == {c \in CandleNums : c >= GRACE_PERIOD_CANDLES}

\* lines 77-105: the risk composed before the random multiplier, for a hold
\* duration and for the one that is a candle longer
ComposedCall ==
    /\ pc = "idle"
    /\ \E c \in LateCandleNums, d \in HoldDurations, r \in {None, 200, 1000}, p \in {None, 0, 500} :
          call' = [call EXCEPT !.fn = "composed", !.candle_num = c, !.position_duration = d,
                               !.position_size_ratio = r, !.pnl_percent = p,
                               !.result = ComposedRisk(c, d, r, p),
                               !.later = ComposedRisk(c, d + 1, r, p)]
    /\ pc' = "called"
    /\ UNCHANGED <<rng, price_data, gen, firstData, sim, config>>

NextRisk == RiskCall \/ QuickRiskCall \/ ComposedCall

SpecRisk == InitRisk /\ [][NextRisk]_vars

----------------------------------------------------------------------------
(* The generator called on its own, twice with the same seed *)

MaxSeed == 2

InitGen ==
    /\ Idle
    /\ rng \in 0..MaxInitRng
    /\ num_rounds = 1
    /\ players_per_type = 1
    /\ riskModel = "real"
    /\ \E seed \in 0..MaxSeed : call = [NoCall EXCEPT !.fn = "generate", !.seed = seed]

\* a call of generate_realistic_price_data(seed), up to its loop
GenerateCall ==
    /\ pc \in {"idle", "called"}
    /\ call.calls < 2
    /\ gen' = GenStart(call.seed, rng, "caller")
    /\ rng' = gen'.params.rng
    /\ price_data' = <<>>
    /\ pc' = "generate"
    /\ UNCHANGED <<sim, config, unit>>

\* between the two calls other code draws from the random source
OtherDraw ==
    /\ pc = "called"
    /\ call.calls = 1
    /\ call.fn = "generate"
    /\ rng' = RngNext(rng)
    /\ call' = [call EXCEPT !.fn = "generate again"]
    /\ UNCHANGED <<pc, price_data, gen, firstData, sim, config>>

NextGen == GenerateCall \/ GenStep \/ GenReturn \/ OtherDraw

SpecGen == InitGen /\ [][NextGen]_vars

----------------------------------------------------------------------------
(* The dip buyer called on its own, on candle sequences that are flat but  *)
(* for drops at chosen candles                                             *)

\* a candle that opens at 10.00, drops by the given amount and closes there
CandleDropping(i, drop) ==
    [candle |-> i, open |-> 1000, high |-> 1000, low |-> 1000 - drop, close |-> 1000 - drop]

\* a sequence of a round's length with drops of 10% at the candles of deep,
\* and of exactly 5% at the candles of shallow
CandlesWithDrops(deep, shallow) ==
    [k \in 1..ROUND_DURATION_CANDLES |->
        CandleDropping(k - 1, IF (k - 1) \in deep THEN 100
                              ELSE IF (k - 1) \in shallow THEN 50 ELSE 0)]

\* no drop at all, drops outside the candles the strategy scans, a drop of
\* exactly 5%, and drops at the first, at inner and at the last scanned candle
DropCases ==
    {[deep |-> {}, shallow |-> {}],
     [deep |-> {}, shallow |-> {200}],
     [deep |-> {GRACE_PERIOD_CANDLES + Lookback - 1}, shallow |-> {}],
     [deep |-> {ROUND_DURATION_CANDLES - 30}, shallow |-> {}],
     [deep |-> {GRACE_PERIOD_CANDLES + Lookback}, shallow |-> {}],
     [deep |-> {250, 300}, shallow |-> {180}],
     [deep |-> {400}, shallow |-> {}],
     [deep |-> {ROUND_DURATION_CANDLES - 31}, shallow |-> {}]}

\* line 289: PlayerStrategy.dip_buyer(player, price_data, simulator) is
\* called with a new player
InitDip ==
    /\ pc = "strategy"
    /\ rng \in 0..MaxInitRng
    /\ num_rounds = 1
    /\ players_per_type = 1
    /\ riskModel \in RiskModels
    /\ round_num = 0
    /\ \E c \in DropCases : price_data = CandlesWithDrops(c.deep, c.shallow)
    /\ gen = NoGen
    /\ all_players = <<Player("dip_buyer")>>
    /\ cur = 1
    /\ strat = [trades_left |-> 1, opened |-> 0]
    /\ pos = NoPosition
    /\ trades = <<>>
    /\ round_fees = 0
    /\ house_profits = <<>>
    /\ total_fees_collected = <<>>
    /\ total_liquidations = <<>>
    /\ ledger = <<NoLedger>>
    /\ runs = 0
    /\ prevResult = NoResult
    /\ call = NoCall
    /\ firstData = <<>>

NextDip == StrategyReturns \/ OpenPosition \/ HoldCandle \/ Liquidation \/ NormalExit

SpecDip == InitDip /\ [][NextDip]_vars

----------------------------------------------------------------------------
(* The random trader called on its own, from many states of the random     *)
(* source, on a flat candle sequence                                       *)

MaxTraderRng == 63

\* line 132: PlayerStrategy.random_trader(player, price_data, simulator) is
\* called with a new player
InitTrader ==
    /\ pc = "player"
    /\ rng \in 0..MaxTraderRng
    /\ num_rounds = 1
    /\ players_per_type = 1
    /\ riskModel \in RiskModels
    /\ round_num = 0
    /\ price_data = CandlesWithDrops({}, {})
    /\ gen = NoGen
    /\ all_players = <<Player("random")>>
    /\ cur = 1
    /\ strat = [trades_left |-> 0, opened |-> 0]
    /\ pos = NoPosition
    /\ trades = <<>>
    /\ round_fees = 0
    /\ house_profits = <<>>
    /\ total_fees_collected = <<>>
    /\ total_liquidations = <<>>
    /\ ledger = <<NoLedger>>
    /\ runs = 0
    /\ prevResult = NoResult
    /\ call = NoCall
    /\ firstData = <<>>

NextTrader ==
    \/ PlayerTurn
    \/ StrategyReturns
    \/ OpenPosition
    \/ HoldCandle
    \/ Liquidation
    \/ NormalExit

SpecTrader == InitTrader /\ [][NextTrader]_vars

----------------------------------------------------------------------------
(* Properties *)

LastCandle == ROUND_DURATION_CANDLES - 1

RECURSIVE SumField(_, _)
\* the sum over the players of a counter
SumField(players, f) ==
    IF players = <<>> THEN 0 ELSE Head(players)[f] + SumField(Tail(players), f)

\* C1: calculate_liquidation_probability, of both simulators, returns a
\* value in [0, 0.01] for every input and every random multiplier, and
\* exactly 0 when the candle index is below the grace period.
C1_RiskInRange ==
    call.fn \in {"risk", "quick_risk"} =>
        /\ 0 <= call.result
        /\ call.result * 100 <= ProbScale
        /\ call.candle_num < GRACE_PERIOD_CANDLES => call.result = 0

\* a call past the ramp, with time, size and greed risk at their caps and
\* the greatest multiplier, returns more than 0.008
C1_Witness ==
    /\ call.fn = "risk"
    /\ call.candle_num >= GRACE_PERIOD_CANDLES + RAMP_UP_PERIOD
    /\ call.position_duration > 60
    /\ call.result > 8000

\* the step in which the liquidation check of the open position fires
LiquidationStep == pos.status = "open" /\ pos'.status = "liquidated"

\* the step in which the open position exits normally
ExitStep == pos.status = "open" /\ pos'.status = "closed"

\* C2: when a liquidation check fires, the player's balance decreases by
\* exactly the position size fixed at entry, liquidations_suffered increases
\* by 1, fees and trade counters are unchanged, no Trade record is produced,
\* and no further candle of the position is checked.
C2_LiquidationEffect ==
    [][/\ LiquidationStep =>
            /\ all_players'[cur].balance = all_players[cur].balance - pos.position_size
            /\ pos.position_size = PositionSize(all_players[cur].balance, pos.ratio)
            /\ all_players'[cur].liquidations_suffered = all_players[cur].liquidations_suffered + 1
            /\ all_players'[cur].total_fees_paid = all_players[cur].total_fees_paid
            /\ all_players'[cur].total_trades = all_players[cur].total_trades
            /\ all_players'[cur].winning_trades = all_players[cur].winning_trades
            /\ \A k \in DOMAIN all_players : k # cur => all_players'[k] = all_players[k]
            /\ trades' = trades
            /\ round_fees' = round_fees
            /\ pc' # "hold"
       /\ pos.status = "open" /\ pos'.status = "open" =>
            /\ pos'.position_size = pos.position_size
            /\ all_players' = all_players
       /\ pos.status = "liquidated" /\ pos' # pos =>
            /\ pos'.status = "open"
            /\ pos'.candle = pos'.entry_candle
            /\ pc = "strategy"
      ]_vars

\* the simulator's own risk model liquidated a position after its entry candle
C2_Witness ==
    /\ riskModel = "real"
    /\ pos.status = "liquidated"
    /\ pos.candle > pos.entry_candle
    /\ all_players[cur].liquidations_suffered > 0

\* C3: at a normal exit fee = position size * fee rate, gross PnL = (exit
\* price - entry price) * position size / entry price, net PnL = gross PnL -
\* fee, the balance increases by net PnL, total_fees_paid by fee,
\* total_trades by 1, and winning_trades by 1 iff net PnL > 0.
C3_NormalExitEffect ==
    [][ExitStep =>
          LET size == pos.position_size
              fee == (size * TRADING_FEE_RATE) \div Milli
              gross == ((Close(price_data, pos.exit_candle) - pos.entry_price) * size)
                       \div pos.entry_price
              net == gross - fee
              before == all_players[cur]
              after == all_players'[cur]
          IN  /\ size = PositionSize(before.balance, RatioOf(before.type))
              /\ after.balance = before.balance + net
              /\ after.total_fees_paid = before.total_fees_paid + fee
              /\ after.total_trades = before.total_trades + 1
              /\ after.winning_trades = before.winning_trades + (IF net > 0 THEN 1 ELSE 0)
              /\ after.liquidations_suffered = before.liquidations_suffered
              /\ ledger'[cur].net = ledger[cur].net + net
      ]_vars

\* a position was closed by a normal exit, and its player has won a trade and
\* lost another
C3_Witness ==
    /\ pos.status = "closed"
    /\ riskModel = "real"
    /\ all_players[cur].winning_trades > 0
    /\ all_players[cur].winning_trades < all_players[cur].total_trades

\* C4: every candle of a sequence of generate_realistic_price_data has
\* low <= min(open, close) <= max(open, close) <= high, and all four prices
\* at least the floor of 0.01.
C4_CandlesWellFormed ==
    \A k \in DOMAIN price_data :
        LET c == price_data[k]
        IN  /\ c.low <= Min(c.open, c.close)
            /\ Max(c.open, c.close) <= c.high
            /\ c.low >= 1 /\ c.open >= 1 /\ c.close >= 1 /\ c.high >= 1

\* a whole sequence was returned, with rising and falling candles and wicks
C4_Witness ==
    /\ pc = "called"
    /\ Len(price_data) = ROUND_DURATION_CANDLES
    /\ \E k \in DOMAIN price_data : price_data[k].close > price_data[k].open
                                    /\ price_data[k].high > price_data[k].close
    /\ \E k \in DOMAIN price_data : price_data[k].close < price_data[k].open
                                    /\ price_data[k].low < price_data[k].close

\* C5: for every seed, the round indexes 0, 1, 2, ... included, two calls of
\* generate_realistic_price_data with the same seed return identical candle
\* sequences, whatever the state of the random source before the call.
C5_SameSeedSameCandles ==
    (pc = "called" /\ call.calls = 2) => price_data = firstData

\* C6: two runs of run_trading_simulation with the same round count and
\* players-per-type count return identical players and per-round series,
\* whatever the state of the random source when each run starts.
C6_RunsIdentical ==
    (pc = "done" /\ runs >= 2 /\ riskModel = "real") => Result = prevResult

\* C7: the liquidation count recorded for a round is the number of
\* liquidations the players suffered in it: after every round the total of
\* the series is the sum of liquidations_suffered over the players.
C7_LiquidationsRecorded ==
    (pc \in {"round", "done"} /\ riskModel = "real") =>
        SumSeq(total_liquidations) = SumField(all_players, "liquidations_suffered")

\* C8: the fee total and the house profit recorded for a round are the fees
\* charged to the players in it: after every round the total of either
\* series is the sum of total_fees_paid over the players.
C8_FeesRecorded ==
    (pc \in {"round", "done"} /\ riskModel = "real") =>
        /\ SumSeq(house_profits) = SumField(all_players, "total_fees_paid")
        /\ SumSeq(total_fees_collected) = SumField(all_players, "total_fees_paid")

\* C9: each player's balance is its initial balance plus the net PnL of its
\* normal exits minus the position sizes it forfeited in liquidations, and
\* so is the sum over the population.
C9_BalanceIdentity ==
    /\ \A k \in DOMAIN all_players :
          all_players[k].balance =
              all_players[k].initial_balance + ledger[k].net - ledger[k].forfeited
    /\ SumField(all_players, "balance") =
          SumField(all_players, "initial_balance") + SumField(ledger, "net")
          - SumField(ledger, "forfeited")

\* at the end of a run a player has both exited normally and been liquidated
C9_Witness ==
    /\ pc = "done"
    /\ riskModel = "real"
    /\ \E k \in DOMAIN all_players :
          /\ ledger[k].net # 0
          /\ ledger[k].forfeited > 0
          /\ all_players[k].total_trades > 0

\* buy_and_hold has returned to the round
HodlReturned == pc = "collect" /\ all_players[cur].type = "hodl"

\* C10: with a risk model that never liquidates, buy-and-hold executes exactly
\* one trade in a round, entering at candle G+10, exiting at the last candle,
\* with fee = balance at entry * position size ratio * fee rate; with any
\* risk model it returns at most one trade.
C10_HodlOneTrade ==
    HodlReturned =>
        /\ Len(trades) <= 1
        /\ riskModel = "never" =>
              /\ Len(trades) = 1
              /\ all_players[cur].total_trades = round_num + 1
              /\ trades[1].entry_candle = GRACE_PERIOD_CANDLES + 10
              /\ trades[1].exit_candle = LastCandle
              /\ trades[1].fee =
                    ((((all_players[cur].balance - trades[1].net_pnl) * POSITION_SIZE_RATIO)
                      \div Milli) * TRADING_FEE_RATE) \div Milli

\* buy-and-hold returned its one trade in the second round of a run
C10_Witness ==
    /\ HodlReturned
    /\ riskModel = "never"
    /\ round_num = 1
    /\ Len(trades) = 1
    /\ trades[1].fee > 0

\* C11: with a risk model that always liquidates at and past the grace
\* period, every position is liquidated at its entry candle, the first that
\* is checked for it, every strategy returns no trade, and after every round
\* the liquidation count recorded by the run is the number of positions
\* opened.
C11_AlwaysLiquidated ==
    riskModel = "always" =>
        /\ pos.status # "closed"
        /\ pos.status \in {"open", "liquidated"} => pos.candle = pos.entry_candle
        /\ pc = "collect" => trades = <<>>
        /\ pc \in {"round", "done"} =>
              SumSeq(total_liquidations) = SumField(ledger, "opened")

\* C13: a run whose round count or players-per-type count is not positive
\* fails before any round is simulated: no candle sequence is generated, no
\* strategy is executed and no result is returned.
C13_MalformedRejected ==
    (num_rounds <= 0 \/ players_per_type <= 0) =>
        /\ price_data = <<>>
        /\ pc \notin {"generate", "player", "strategy", "hold", "collect", "done"}

\* a step of the strategy of the player cur, its call included
StrategyStep == pc \in {"strategy", "hold"} \/ (pc = "player" /\ pc' = "strategy")

\* C14: the players share no mutable state: a step of one player's strategy
\* changes that player's own record and the locals of the strategy only, not
\* the candle sequence, another player's record or the random source that
\* the strategies of the other players draw from.
C14_NoSharedState ==
    [][StrategyStep =>
          /\ price_data' = price_data
          /\ \A k \in DOMAIN all_players : k # cur => all_players'[k] = all_players[k]
          /\ rng' = rng
      ]_vars

\* C15: with the candle index, the size ratio and the PnL percent fixed, the
\* risk composed before the random multiplier does not decrease when a hold
\* duration above 60 candles grows by a candle (and so, step by step, with
\* any longer hold duration).
C15_RiskMonotoneInDuration ==
    (pc = "called" /\ call.fn = "composed" /\ call.position_duration > 60) =>
        call.result <= call.later

\* a hold duration above 60 at which the composed risk grows, below the cap
\* on the time risk, with size and greed risk present
C15_Witness ==
    /\ pc = "called"
    /\ call.fn = "composed"
    /\ call.position_duration > 60
    /\ call.position_size_ratio = 1000
    /\ call.pnl_percent = 500
    /\ call.result < call.later
    /\ call.later < BaseChance(call.candle_num) + 4000

\* the running strategy is that of a dip buyer
DipBuyerRuns == pc \in {"strategy", "hold", "collect"} /\ all_players[cur].type = "dip_buyer"

\* the close of candle i is more than 5% below the highest high of the 20
\* candles before it
FivePercentBelowHigh(i) ==
    \E j \in (i - 20)..(i - 1) :
        /\ \A m \in (i - 20)..(i - 1) : High(price_data, m) <= High(price_data, j)
        /\ 100 * Close(price_data, i) < 95 * High(price_data, j)

\* the candles the dip buyer scans: from G+20 to L-31
DipScan == (GRACE_PERIOD_CANDLES + 20)..(ROUND_DURATION_CANDLES - 31)

\* the position the dip buyer holds or held in this call of its strategy
DipPositionRight ==
    (DipBuyerRuns /\ strat.opened > 0) =>
        /\ pos.entry_candle \in DipScan
        /\ FivePercentBelowHigh(pos.entry_candle)
        /\ \A i \in DipScan : i < pos.entry_candle => ~FivePercentBelowHigh(i)
        /\ pos.entry_price = Close(price_data, pos.entry_candle)
        /\ pos.exit_candle <= LastCandle
        /\ pos.exit_candle - pos.entry_candle \in 30..80
        /\ pos.status = "closed" => /\ Len(trades) = 1
                                    /\ trades[1].exit_candle - trades[1].entry_candle \in 30..80

\* C16: the dip buyer enters at the smallest candle index in [G+20, L-30)
\* whose close is more than 5% below the highest high of the 20 candles
\* before it, a position of its that is not liquidated is held between 30 and
\* 80 candles, also when the exit is truncated at the last candle, and when no
\* candle qualifies the strategy returns no trade and leaves the player as it
\* was.
C16_DipBuyer ==
    [][/\ DipPositionRight'
       /\ (DipBuyerRuns /\ pc = "strategy"
           /\ \A i \in DipScan : ~FivePercentBelowHigh(i)) =>
              /\ pc' = "collect"
              /\ trades' = <<>>
              /\ all_players' = all_players
      ]_vars

\* a dip buyer has exited a position that it entered after the first candle
\* of its scan, the exit truncated at the last candle
C16_Witness ==
    /\ DipBuyerRuns
    /\ pc = "collect"
    /\ strat.opened = 1
    /\ pos.status = "closed"
    /\ pos.entry_candle > GRACE_PERIOD_CANDLES + 20
    /\ pos.exit_candle = LastCandle
    /\ pos.exit_candle - pos.entry_candle < 80

\* the running strategy is that of a scalper
ScalperRuns == pc \in {"strategy", "hold", "collect"} /\ all_players[cur].type = "scalper"

\* C17: in every round the scalper opens between 5 and 15 positions; the
\* size of each is the balance at its entry times half the standard ratio,
\* half the standard ratio is the size ratio handed to the risk model, and
\* the exit is between 5 and 30 candles after the entry, also when it is
\* truncated at the last candle.
C17_Scalper ==
    ScalperRuns =>
        /\ strat.opened <= 15
        /\ pc = "collect" => strat.opened >= 5
        /\ pc = "hold" =>
              /\ 2 * pos.ratio = POSITION_SIZE_RATIO
              /\ pos.position_size =
                    (all_players[cur].balance * (POSITION_SIZE_RATIO \div 2)) \div Milli
        /\ strat.opened > 0 =>
              /\ pos.exit_candle - pos.entry_candle \in 5..30
              /\ pos.exit_candle <= LastCandle

\* a scalper returns after 5 to 15 positions, the last of them exited
\* normally
C17_Witness ==
    /\ ScalperRuns
    /\ pc = "collect"
    /\ strat.opened \in 5..15
    /\ pos.status = "closed"
    /\ all_players[cur].total_trades > 0
    /\ pos.position_size > 0

\* the running strategy is that of a random trader
RandomRuns == pc \in {"strategy", "hold", "collect"} /\ all_players[cur].type = "random"

\* the position the random trader holds or held last in this call
RandomPositionRight ==
    (RandomRuns /\ strat.opened > 0) =>
        /\ pos.entry_candle >= GRACE_PERIOD_CANDLES
        /\ pos.entry_candle <= LastCandle
        /\ pos.exit_candle <= LastCandle
        /\ pos.exit_candle - pos.entry_candle \in 10..100

\* C18: every position of the random trader has its entry candle in
\* [G, L-1] and its exit candle at most L-1 and between 10 and 100 candles
\* after the entry; the liquidation check is made at every candle from the
\* entry to the exit in increasing order, with the hold duration candle -
\* entry, up to the first check that fires, and a normal exit follows the
\* check of the exit candle only.
C18_RandomTrader ==
    [][/\ RandomPositionRight'
       /\ (RandomRuns /\ pc = "strategy" /\ pc' = "hold") =>
              /\ pos'.candle = pos'.entry_candle
              /\ pos'.duration = None
       /\ (RandomRuns /\ pc = "hold" /\ pos'.status # "closed") =>
              /\ pos.candle \in pos.entry_candle..pos.exit_candle
              /\ pos'.duration = pos.candle - pos.entry_candle
              /\ pos'.status = "open" => pc' = "hold" /\ pos'.candle = pos.candle + 1
              /\ pos'.status = "liquidated" => pc' = "strategy" /\ pos'.candle = pos.candle
       /\ (RandomRuns /\ pc = "hold" /\ pos'.status = "closed") =>
              /\ pos.candle = pos.exit_candle + 1
              /\ pos.duration = pos.exit_candle - pos.entry_candle
      ]_vars

\* a random trader has exited a position normally at the last candle, sooner
\* than the hold time it drew, after the check of that candle
C18_Witness ==
    /\ RandomRuns
    /\ strat.opened > 0
    /\ pos.status = "closed"
    /\ pos.exit_candle = LastCandle
    /\ pos.exit_candle - pos.entry_candle < 100
    /\ pos.duration = pos.exit_candle - pos.entry_candle
    /\ riskModel = "real"

\* C19: a player that starts with a positive balance keeps a balance above
\* zero through all rounds and trades of every strategy: a position costs
\* its player at most position size * (1 + fee rate), which is below the
\* balance, so no strategy meets a balance <= 0, no player is skipped, and
\* the balance that pnl_percent divides by is never zero.
C19_BalancePositive ==
    [][/\ \A k \in DOMAIN all_players' : all_players'[k].balance > 0
       /\ pc' = "hold" =>
              pos'.position_size + TradingFee(pos'.position_size) < all_players'[cur'].balance
       /\ pc = "hold" =>
              all_players[cur].balance - all_players'[cur].balance
                  <= pos.position_size + (pos.position_size * TRADING_FEE_RATE) \div Milli
       /\ (pc = "player" /\ cur <= Len(all_players)) => pc' = "strategy"
      ]_vars

\* at the end of a run in which every position was liquidated, a player has
\* lost more than two thirds of its balance in more than five liquidations
C19_Witness ==
    /\ pc = "done"
    /\ riskModel = "always"
    /\ \E k \in DOMAIN all_players :
          /\ all_players[k].liquidations_suffered > 5
          /\ 3 * all_players[k].balance < INITIAL_BALANCE

====
